---- MODULE Spec2Model ----
(***************************************************************************)
(* Model of pkg/sentry/kernel/time/time.go: the Time and Setting value     *)
(* types and the Timer engine (Tick, Get, SwapAnd, SetClock, Pause,        *)
(* Resume, Destroy, the Timer goroutine).                                  *)
(*                                                                         *)
(* Integers are Bits wide instead of 64: int64 is MinInt64..MaxInt64 and   *)
(* uint64 is 0..2^Bits-1, with the conversions between them wrapping as    *)
(* Go's do.                                                                *)
(***************************************************************************)
EXTENDS Integers, Sequences, FiniteSets, TLC

\* Width of the machine word the model computes with (64 in the source).
Bits == 4

Two63 == 2 ^ (Bits - 1)
Two64 == 2 ^ Bits

MaxInt64 == Two63 - 1
MinInt64 == 0 - Two63
Int64 == MinInt64 .. MaxInt64

\* int64(x): two's-complement wrap of an integer into the signed range.
ToInt64(x) == LET m == x % Two64 IN IF m >= Two63 THEN m - Two64 ELSE m

\* uint64(x): wrap of an integer into the unsigned range.
ToUint64(x) == x % Two64

MinTime == MinInt64
MaxTime == MaxInt64
ZeroTime == 0
MinDuration == MinInt64
MaxDuration == MaxInt64

\* Time.Add: saturating addition of a duration to an instant.
Add(t, d) ==
  IF t > 0 /\ d > MaxInt64 - t THEN MaxTime
  ELSE IF t < 0 /\ d < MinInt64 - t THEN MinTime
  ELSE ToInt64(t + d)

\* Sub without the round-trip test: the wrapped difference.
SubWrapping(t, u) == ToInt64(t - u)

\* Time.Sub: wrapped difference, kept when it round-trips, else saturated.
Sub(t, u) ==
  LET dur == ToInt64(t - u) IN
  IF Add(u, dur) = t THEN dur
  ELSE IF t < u THEN MinDuration
  ELSE MaxDuration

\* Setting: Enabled, Next (a Time), Period (a Duration).
MkSetting(e, n, p) == [Enabled |-> e, Next |-> n, Period |-> p]

\* Setting{}: the zero value.
ZeroSetting == MkSetting(FALSE, ZeroTime, 0)

\* The expiration count of Setting.At for an enabled periodic setting that
\* has expired (uint64 arithmetic).
AtExp(s, now) ==
  ToUint64(1 + (ToUint64(Sub(now, s.Next)) \div ToUint64(s.Period)))

\* At that fires a one-shot setting without disabling it.
AtOneShotStaysEnabled(s, now) ==
  IF ~s.Enabled THEN <<s, 0>>
  ELSE IF s.Next > now THEN <<s, 0>>
  ELSE IF s.Period = 0 THEN <<s, 1>>
  ELSE LET exp == AtExp(s, now) IN
       <<[s EXCEPT !.Next = Add(s.Next, ToInt64(ToUint64(s.Period) * exp))],
         exp>>

\* Setting.At: the updated setting and the number of expirations at now.
At(s, now) ==
  IF ~s.Enabled THEN <<s, 0>>
  ELSE IF s.Next > now THEN <<s, 0>>
  ELSE IF s.Period = 0 THEN <<[s EXCEPT !.Enabled = FALSE], 1>>
  ELSE LET exp == AtExp(s, now) IN
       <<[s EXCEPT !.Next = Add(s.Next, ToInt64(ToUint64(s.Period) * exp))],
         exp>>

\* time.Second in nanoseconds (1e9), at the scale of Bits.
Second == 2^(Bits - 2) - 1

\* Go's integer division and remainder truncate toward zero.
Quot(a, b) == IF a >= 0 THEN a \div b ELSE 0 - ((0 - a) \div b)
Rem(a, b) == a - b * Quot(a, b)

\* FromUnix: Unix seconds and nanoseconds to Time. math.MaxInt64-ns is an
\* int64 subtraction.
FromUnix(sec, ns) ==
  IF sec > Quot(MaxInt64, Second) THEN MaxTime
  ELSE LET t == ToInt64(sec * Second) IN
       IF t > ToInt64(MaxInt64 - ns) THEN MaxTime ELSE ToInt64(t + ns)

\* Time.Unix: the (seconds, nanoseconds) representation of t.
Unix(t) == << Quot(t, Second), Rem(t, Second) >>

\* What the Setting constructors return: (Setting, error).
Returned(s, err) == [s |-> s, err |-> err]
EINVAL == "EINVAL"

\* SettingFromSpecAt that rejects value = 0 as well.
SettingFromSpecAtRejectingZero(value, interval, now) ==
  IF value <= 0 THEN Returned(ZeroSetting, EINVAL)
  ELSE Returned(MkSetting(TRUE, Add(now, value), interval), "nil")

\* SettingFromSpecAt: value is relative to now.
SettingFromSpecAt(value, interval, now) ==
  IF value < 0 THEN Returned(ZeroSetting, EINVAL)
  ELSE IF value = 0 THEN Returned(MkSetting(FALSE, ZeroTime, interval), "nil")
  ELSE Returned(MkSetting(TRUE, Add(now, value), interval), "nil")

\* SettingFromAbsSpec: value is an absolute time.
SettingFromAbsSpec(value, interval) ==
  IF value < ZeroTime THEN Returned(ZeroSetting, EINVAL)
  ELSE IF value = ZeroTime
    THEN Returned(MkSetting(FALSE, ZeroTime, interval), "nil")
  ELSE Returned(MkSetting(TRUE, value, interval), "nil")

\* linux.Timespec and linux.Itimerspec.
MkTimespec(sec, nsec) == [Sec |-> sec, Nsec |-> nsec]
MkItimerspec(interval, value) == [Interval |-> interval, Value |-> value]

\* Timespec.ToNsecCapped, which Timespec.ToDuration and FromTimespec return.
ToNsecCapped(ts) ==
  IF ts.Sec > Quot(MaxInt64, Second) THEN MaxInt64
  ELSE ToInt64(ts.Sec * Second + ts.Nsec)

FromTimespec(ts) == ToNsecCapped(ts)
ToDuration(ts) == ToNsecCapped(ts)

\* linux.NsecToTimespec, which linux.DurationToTimespec returns.
NsecToTimespec(ns) == MkTimespec(Quot(ns, Second), Rem(ns, Second))
DurationToTimespec(d) == NsecToTimespec(d)

\* SettingFromItimerspec, with now the value of c.Now().
SettingFromItimerspec(its, abs, now) ==
  IF abs
    THEN SettingFromAbsSpec(FromTimespec(its.Value), ToDuration(its.Interval))
    ELSE SettingFromSpecAt(ToDuration(its.Value), ToDuration(its.Interval),
                           now)

\* SpecFromSetting that returns s.Next itself as the value.
SpecFromSettingAbsolute(now, s) ==
  IF ~s.Enabled THEN << 0, s.Period >> ELSE << s.Next, s.Period >>

\* SpecFromSetting: the (relative value, interval) pair of a Setting.
SpecFromSetting(now, s) ==
  IF ~s.Enabled THEN << 0, s.Period >> ELSE << Sub(s.Next, now), s.Period >>

\* ItimerspecFromSetting.
ItimerspecFromSetting(now, s) ==
  LET vi == SpecFromSetting(now, s)
  IN MkItimerspec(DurationToTimespec(vi[2]), DurationToTimespec(vi[1]))


(***************************************************************************)
(* The Timer engine.                                                       *)
(***************************************************************************)

\* Clocks a Timer can be driven by (Timer.clock, the argument of SetClock).
Clocks == {"c1", "c2"}

\* Threads that call the Timer's methods, and the Timer goroutine "bg".
\* u1 is the thread that reads the timer (Tick, Get, Swap, SwapAnd), u2 the
\* one that replaces its clock (SetClock); both call Pause, Resume, Destroy.
Callers == {"u1", "u2"}
Readers == {"u1"}
Setters == {"u2"}
Threads == Callers \cup {"bg"}

\* Values Clock.Now() returns. A Clock is an abstract, possibly
\* non-monotonic time source, so any of them can be returned at any time.
NowVals == {2, MaxInt64}

\* Settings that callers pass to Swap and SwapAnd.
CallerSettings ==
  { MkSetting(FALSE, 0, 0), MkSetting(TRUE, 3, 0), MkSetting(TRUE, 1, 2) }

\* Settings that callers pass to SetClock: disabled, and a one-shot that is
\* due at the earliest reading of the clocks.
SetClockSettings == { MkSetting(FALSE, 0, 0), MkSetting(TRUE, 2, 0) }

\* Settings a Listener returns from NotifyTimer with update = true.
ListenerSettings == { MkSetting(TRUE, 5, 0) }

\* What NotifyTimer can return: (newSetting, update).
Replies ==
  { [ok |-> FALSE, newS |-> ZeroSetting] }
    \cup { [ok |-> TRUE, newS |-> x] : x \in ListenerSettings }

\* What ChannelNotifier.NotifyTimer returns: (Setting{}, false).
ChannelReply == [ok |-> FALSE, newS |-> ZeroSetting]

VARIABLES
  clock,       \* Timer.clock
  setting,     \* Timer.setting
  pauseState,  \* Timer.pauseState
  kicker,      \* Timer.kicker: "nil" | "idle" (stopped or expired) | "armed"
  kickerC,     \* whether Timer.kicker.C holds a fired value
  events,      \* Timer.events: "nil" | "open" | "closed"
  eventsBuf,   \* whether Timer.events holds a queued clock event
  registered,  \* the Clocks Timer.entry is registered with
  thr,         \* per thread: position and the locals of the call in progress
  panicked,    \* "none", or the panic that ended the program
  obs,         \* what the last step did: the call, its notifications, its result
  pure,        \* inputs and results of the value-level checks
  tchan        \* the channel of the Timer's ChannelNotifier: "none" when the
               \* listener is another one, else "empty" | "full" | "closed"

vars == << clock, setting, pauseState, kicker, kickerC, events, eventsBuf,
           registered, thr, panicked, obs, pure, tchan >>

timerVars == << clock, setting, pauseState, kicker, kickerC, events,
                eventsBuf, registered >>

timerUnpaused == "Unpaused"
timerPaused == "Paused"
timerDestroyed == "Destroyed"

\* uclock and now are the locals unlockedClock and now of Tick, Get and
\* SwapAnd; c, s and now are the arguments c and s and the local now of
\* SetClock; again tells, for a Destroy call, that it was made after an
\* earlier Destroy had returned.
NoLocals(pc) ==
  [pc |-> pc, uclock |-> "c1", now |-> 0, s |-> ZeroSetting, c |-> "c1",
   again |-> FALSE]

\* A step of the log of a critical section: a NotifyTimer call with its
\* arguments and its results, or a call of SwapAnd's f.
Note(exp, s, r) ==
  [kind |-> "notify", exp |-> exp, s |-> s, ok |-> r.ok, newS |-> r.newS]
FCall == [kind |-> "f", exp |-> 0, s |-> ZeroSetting, ok |-> FALSE,
          newS |-> ZeroSetting]

\* reset is the duration the step passed to t.kicker.Reset, in a one-element
\* sequence, or empty when it made no such call.
\* arg is the Setting argument of SwapAnd or SetClock, ret the Setting the
\* call returns (Get, SwapAnd); f tells whether SwapAnd was given an f.
\* nowClock is the Clock whose Now() returned now, uclock the Clock that
\* Tick, Get or SwapAnd read before it took the mutex.
Obs(op, now, nowClock, log, arg, ret, reset) ==
  [op |-> op, now |-> now, nowClock |-> nowClock, log |-> log, arg |-> arg,
   ret |-> ret, reset |-> reset, f |-> FALSE, uclock |-> "c1"]
ObsOf(op) == Obs(op, 0, "c1", << >>, ZeroSetting, ZeroSetting, << >>)

\* The value-level checks: a Setting s and instants now and now2, with
\* r = s.At(now) and r2 = r[1].At(now2).
PureOf(phase, s, now, r, now2, r2) ==
  [phase |-> phase, s |-> s, now |-> now, r |-> r, now2 |-> now2, r2 |-> r2]
PureIn(s, now) == PureOf("in", s, now, << s, 0 >>, 0, << s, 0 >>)
PureOff == PureOf("off", ZeroSetting, 0, << ZeroSetting, 0 >>, 0,
                  << ZeroSetting, 0 >>)

\* The history of a Timer, kept where Init asks for it: how the Timer came
\* to be (NewTimer, or restore from a checkpoint) and whether a Resume has
\* since taken it out of timerPaused.
PureHist(origin, resumed) ==
  [phase |-> "hist", origin |-> origin, resumed |-> resumed]
NoteResume(p) == IF p.phase = "hist" THEN [p EXCEPT !.resumed = TRUE] ELSE p

\* NewTimer: clock and listener set, then init (kicker created by
\* time.NewTimer(0), entry registered with the clock, goroutine started).
TimerInit ==
  /\ clock = "c1"
  /\ setting = ZeroSetting
  /\ pauseState = timerUnpaused
  /\ kicker = "armed"
  /\ kickerC = FALSE
  /\ events = "open"
  /\ eventsBuf = FALSE
  /\ registered = {"c1"}
  /\ thr = [t \in Threads |-> NoLocals(IF t = "bg" THEN "select" ELSE "idle")]
  /\ panicked = "none"
  /\ obs = ObsOf("NewTimer")

Init == TimerInit /\ pure = PureOff /\ tchan = "none"

\* Clock.WallTimeUntil of a WallRateClock.
WallTimeUntil(t, now) == Sub(t, now)

\* resetKickerLocked that leaves the kicker as it finds it.
resetKickerLockedSkipped(k, s, now) == k

\* Timer.resetKickerLocked: the kicker after the call, given the setting
\* just installed.
resetKickerLocked(k, s, now) == IF s.Enabled THEN "armed" ELSE k

\* The duration resetKickerLocked passes to t.kicker.Reset, if it calls it.
ResetArg(s, now) ==
  IF s.Enabled THEN << WallTimeUntil(s.Next, now) >> ELSE << >>

\* resetKickerLocked dereferences a nil kicker when the setting is enabled.
ResetPanics(k, s) == s.Enabled /\ k = "nil"

\* time.Timer.Stop on the kicker.
kickerStop(k) == IF k = "armed" THEN "idle" ELSE k

\* A panic ends the program: no step is taken after one.
Running == panicked = "none"

Return(t) == IF t = "bg" THEN NoLocals("select") ELSE NoLocals("idle")


\* A locked section that keeps the optimistic sample whatever t.clock is.
ResampledNever(t) == FALSE

\* The test t.clock != unlockedClock of Tick, Get and SwapAnd.
Resampled(t) == clock # thr[t].uclock

\* The instant a locked section works with: the optimistic sample, or a
\* fresh reading of the current clock when SetClock changed it meanwhile.
LockedNows(t) == IF Resampled(t) THEN NowVals ELSE {thr[t].now}

\* The Clock whose Now() returned that instant.
LockedClock(t) == IF Resampled(t) THEN clock ELSE thr[t].uclock

\* Tick, Get and SwapAnd up to t.mu.Lock(): t.Clock() and its Now() are read
\* without the mutex.
Sample(t, pc) ==
  \E now \in NowVals :
    /\ thr' = [thr EXCEPT ![t] = [NoLocals(pc) EXCEPT !.uclock = clock,
                                                      !.now = now]]
    /\ obs' = ObsOf("Sample")
    /\ UNCHANGED << timerVars, panicked, pure, tchan >>

\* What the Timer's listener can return from NotifyTimer.
ListenerReplies == IF tchan = "none" THEN Replies ELSE {ChannelReply}

\* ChannelNotifier.NotifyTimer: a non-blocking send on the channel, whose
\* buffer has one slot. log is what the locked section did.
ChanSend(c, log) ==
  IF c = "none" \/ \A i \in DOMAIN log : log[i].kind # "notify" THEN c
  ELSE "full"

\* Installed that drops the listener's replacement.
InstalledIgnoringReply(s, exp, r) == s

\* The setting Tick and Get install: the advanced one, or the listener's.
Installed(s, exp, r) == IF exp > 0 /\ r.ok THEN r.newS ELSE s

\* Notified without the test exp > 0.
NotifiedUnconditionally(s, exp, r) == << Note(exp, s, r) >>

\* The NotifyTimer calls Tick and Get make for At's result.
Notified(s, exp, r) == IF exp > 0 THEN << Note(exp, s, r) >> ELSE << >>

\* Advance in which Get returns t.setting as the listener left it, not s.
AdvanceReturningInstalled(t, op, now, r) ==
  LET a == At(setting, now)
      new == Installed(a[1], a[2], r)
  IN /\ setting' = new
     /\ obs' = [Obs(op, now, LockedClock(t), Notified(a[1], a[2], r),
                    ZeroSetting, IF op = "Get" THEN new ELSE a[1],
                    ResetArg(new, now))
                  EXCEPT !.uclock = thr[t].uclock]
     /\ IF ResetPanics(kicker, new)
          THEN /\ panicked' = "nil kicker"
               /\ UNCHANGED kicker
          ELSE /\ kicker' = resetKickerLocked(kicker, new, now)
               /\ UNCHANGED panicked
     /\ thr' = [thr EXCEPT ![t] = Return(t)]
     /\ tchan' = ChanSend(tchan, Notified(a[1], a[2], r))
     /\ UNCHANGED << clock, pauseState, kickerC, events, eventsBuf,
                     registered, pure >>

\* The part of Tick and Get after the pauseState check, under t.mu.
Advance(t, op, now, r) ==
  LET a == At(setting, now)
      new == Installed(a[1], a[2], r)
  IN /\ setting' = new
     /\ obs' = [Obs(op, now, LockedClock(t), Notified(a[1], a[2], r),
                    ZeroSetting, a[1], ResetArg(new, now))
                  EXCEPT !.uclock = thr[t].uclock]
     /\ IF ResetPanics(kicker, new)
          THEN /\ panicked' = "nil kicker"
               /\ UNCHANGED kicker
          ELSE /\ kicker' = resetKickerLocked(kicker, new, now)
               /\ UNCHANGED panicked
     /\ thr' = [thr EXCEPT ![t] = Return(t)]
     /\ tchan' = ChanSend(tchan, Notified(a[1], a[2], r))
     /\ UNCHANGED << clock, pauseState, kickerC, events, eventsBuf,
                     registered, pure >>

\* Timer.Tick, lines 541-542.
TickBegin(t) ==
  /\ Running
  /\ t \in Readers \cup {"bg"}
  /\ thr[t].pc = IF t = "bg" THEN "woken" ELSE "idle"
  /\ Sample(t, "TickLock")

\* Tick without the pauseState test of lines 545-547.
TickLockedUnchecked(t) ==
  /\ Running
  /\ thr[t].pc = "TickLock"
  /\ \E now \in LockedNows(t), r \in ListenerReplies : Advance(t, "Tick", now, r)

\* Timer.Tick, lines 543-558.
TickLocked(t) ==
  /\ Running
  /\ thr[t].pc = "TickLock"
  /\ IF pauseState # timerUnpaused
       THEN /\ thr' = [thr EXCEPT ![t] = Return(t)]
            /\ obs' = [ObsOf("Tick") EXCEPT !.now = thr[t].now]
            /\ UNCHANGED << timerVars, panicked, pure, tchan >>
       ELSE \E now \in LockedNows(t), r \in ListenerReplies : Advance(t, "Tick", now, r)

\* SetClock is not called on a Destroyed Timer, nor any call but Tick, Pause
\* and Resume while Destroy runs ("No other methods may be called on a
\* Destroyed Timer"). Get and SwapAnd, which check pauseState themselves,
\* and Tick, Pause, Resume and Destroy are modelled in every state.
InCall(t) == thr[t].pc \in {"GetLock", "SwapAndLock", "SetClockLock"}
MayCall(t) == thr[t].pc = "idle" /\ pauseState # timerDestroyed
MayDestroy(t) ==
  t \in Callers /\ thr[t].pc = "idle" /\ \A u \in Callers : ~InCall(u)

\* Timer.Get, lines 607-608.
GetBegin(t) ==
  /\ Running
  /\ t \in Readers
  /\ thr[t].pc = "idle"
  /\ Sample(t, "GetLock")

\* Get without the pauseState test of lines 611-613.
GetLockedUnchecked(t) ==
  /\ Running
  /\ thr[t].pc = "GetLock"
  /\ \E now \in LockedNows(t), r \in ListenerReplies : Advance(t, "Get", now, r)

\* Timer.Get, lines 609-625.
GetLocked(t) ==
  /\ Running
  /\ thr[t].pc = "GetLock"
  /\ IF pauseState # timerUnpaused
       THEN /\ panicked' = "Get"
            /\ obs' = ObsOf("Get")
            /\ UNCHANGED << timerVars, thr, pure, tchan >>
       ELSE \E now \in LockedNows(t), r \in ListenerReplies : Advance(t, "Get", now, r)


\* Timer.SwapAnd, lines 650-651 (Swap is SwapAnd with f = nil).
SwapAndBegin(t) ==
  /\ Running
  /\ t \in Readers
  /\ thr[t].pc = "idle"
  /\ Sample(t, "SwapAndLock")

\* SwapAndLog that calls f last, after the new setting was notified.
SwapAndLogFLast(old, f, new, r1, r2) ==
  (IF old[2] > 0 THEN << Note(old[2], old[1], r1) >> ELSE << >>)
    \o (IF new[2] > 0 THEN << Note(new[2], new[1], r2) >> ELSE << >>)
    \o (IF f THEN << FCall >> ELSE << >>)

\* The calls SwapAnd makes under t.mu, in order: NotifyTimer for the old
\* setting's expirations, f, NotifyTimer for the new setting's expirations.
SwapAndLog(old, f, new, r1, r2) ==
  (IF old[2] > 0 THEN << Note(old[2], old[1], r1) >> ELSE << >>)
    \o (IF f THEN << FCall >> ELSE << >>)
    \o (IF new[2] > 0 THEN << Note(new[2], new[1], r2) >> ELSE << >>)

\* SwapAndInstalled that honours the reply to the first notification too.
SwapAndInstalledFromFirst(new, r1, r2) ==
  IF r1.ok THEN r1.newS ELSE Installed(new[1], new[2], r2)

\* The setting SwapAnd installs: s advanced to now, or the listener's
\* replacement from the notification about s.
SwapAndInstalled(new, r1, r2) == Installed(new[1], new[2], r2)

\* Timer.SwapAnd, lines 652-677. The arguments s and f are first read here,
\* so the step draws them: s from CallerSettings, f present or nil as Fs
\* allows.
SwapAndLockedF(t, Fs) ==
  /\ Running
  /\ thr[t].pc = "SwapAndLock"
  /\ IF pauseState # timerUnpaused
       THEN /\ panicked' = "SwapAnd"
            /\ obs' = ObsOf("SwapAnd")
            /\ UNCHANGED << timerVars, thr, pure, tchan >>
       ELSE \E now \in LockedNows(t), s \in CallerSettings, f \in Fs,
                 r1 \in ListenerReplies, r2 \in ListenerReplies :
              LET old == At(setting, now)
                  new == At(s, now)
                  inst == SwapAndInstalled(new, r1, r2)
              IN /\ setting' = inst
                 /\ obs' = [Obs("SwapAnd", now, LockedClock(t),
                                SwapAndLog(old, f, new, r1, r2), s, old[1],
                                ResetArg(inst, now))
                              EXCEPT !.f = f, !.uclock = thr[t].uclock]
                 /\ IF ResetPanics(kicker, inst)
                      THEN /\ panicked' = "nil kicker"
                           /\ UNCHANGED kicker
                      ELSE /\ kicker' = resetKickerLocked(kicker, inst, now)
                           /\ UNCHANGED panicked
                 /\ thr' = [thr EXCEPT ![t] = Return(t)]
                 /\ tchan' = ChanSend(tchan, SwapAndLog(old, f, new, r1, r2))
                 /\ UNCHANGED << clock, pauseState, kickerC, events,
                                 eventsBuf, registered, pure >>

SwapAndLocked(t) == SwapAndLockedF(t, BOOLEAN)

\* Timer.Swap: SwapAnd(s, nil).
SwapLocked(t) == SwapAndLockedF(t, {FALSE})

\* Timer.SetClock, lines 682-685: c.Now() is read only for an enabled s.
SetClockBegin(t) ==
  /\ Running
  /\ t \in Setters
  /\ MayCall(t)
  /\ \E c \in Clocks, s \in SetClockSettings :
       \E now \in (IF s.Enabled THEN NowVals ELSE {ZeroTime}) :
         /\ thr' = [thr EXCEPT ![t] = [NoLocals("SetClockLock") EXCEPT
                                        !.c = c, !.s = s, !.now = now]]
         /\ obs' = ObsOf("Sample")
         /\ UNCHANGED << timerVars, panicked, pure, tchan >>

\* SetClock without the oldC.EventUnregister of line 690.
SetClockLockedKeepingOld(t) ==
  /\ Running
  /\ thr[t].pc = "SetClockLock"
  /\ setting' = thr[t].s
  /\ clock' = thr[t].c
  /\ registered' = IF clock # thr[t].c
                     THEN registered \cup {thr[t].c}
                     ELSE registered
  /\ IF ResetPanics(kicker, thr[t].s)
       THEN /\ panicked' = "nil kicker"
            /\ UNCHANGED kicker
       ELSE /\ kicker' = resetKickerLocked(kicker, thr[t].s, thr[t].now)
            /\ UNCHANGED panicked
  /\ obs' = Obs("SetClock", thr[t].now, thr[t].c, << >>, thr[t].s,
                ZeroSetting,
                ResetArg(thr[t].s, thr[t].now))
  /\ thr' = [thr EXCEPT ![t] = Return(t)]
  /\ UNCHANGED << pauseState, kickerC, events, eventsBuf, pure, tchan >>

\* Timer.SetClock, lines 686-696.
SetClockLocked(t) ==
  /\ Running
  /\ thr[t].pc = "SetClockLock"
  /\ setting' = thr[t].s
  /\ clock' = thr[t].c
  /\ registered' = IF clock # thr[t].c
                     THEN (registered \ {clock}) \cup {thr[t].c}
                     ELSE registered
  /\ IF ResetPanics(kicker, thr[t].s)
       THEN /\ panicked' = "nil kicker"
            /\ UNCHANGED kicker
       ELSE /\ kicker' = resetKickerLocked(kicker, thr[t].s, thr[t].now)
            /\ UNCHANGED panicked
  /\ obs' = Obs("SetClock", thr[t].now, thr[t].c, << >>, thr[t].s,
                ZeroSetting,
                ResetArg(thr[t].s, thr[t].now))
  /\ thr' = [thr EXCEPT ![t] = Return(t)]
  /\ UNCHANGED << pauseState, kickerC, events, eventsBuf, pure, tchan >>

\* Timer.Pause.
Pause(t) ==
  /\ Running
  /\ t \in Callers
  /\ thr[t].pc = "idle"
  /\ IF pauseState # timerUnpaused
       THEN UNCHANGED << pauseState, kicker >>
       ELSE /\ pauseState' = timerPaused
            /\ kicker' = kickerStop(kicker)
  /\ obs' = ObsOf("Pause")
  /\ UNCHANGED << clock, setting, kickerC, events, eventsBuf, registered,
                  thr, panicked, pure, tchan >>

\* Resume without the t.kicker.Reset(0) of line 596.
ResumeWithoutReset(t) ==
  /\ Running
  /\ t \in Callers
  /\ thr[t].pc = "idle"
  /\ IF pauseState # timerPaused
       THEN UNCHANGED pauseState
       ELSE pauseState' = timerUnpaused
  /\ obs' = ObsOf("Resume")
  /\ UNCHANGED << clock, setting, kicker, kickerC, events, eventsBuf,
                  registered, thr, panicked, pure, tchan >>

\* Resume with the test of line 582 inverted into "already unpaused".
ResumeFromAny(t) ==
  /\ Running
  /\ t \in Callers
  /\ thr[t].pc = "idle"
  /\ IF pauseState = timerUnpaused
       THEN UNCHANGED << pauseState, kicker >>
       ELSE /\ pauseState' = timerUnpaused
            /\ kicker' = "armed"
  /\ obs' = ObsOf("Resume")
  /\ UNCHANGED << clock, setting, kickerC, events, eventsBuf, registered,
                  thr, panicked, pure, tchan >>

\* Timer.init: a no-op once the kicker exists; else the kicker is created
\* already expiring, the entry registered and the goroutine started.
\* Timer.Resume then resets the kicker to fire at once.
Resume(t) ==
  /\ Running
  /\ t \in Callers
  /\ thr[t].pc = "idle"
  /\ IF pauseState # timerPaused
       THEN UNCHANGED << pauseState, kicker, events, eventsBuf, registered,
                         thr >>
       ELSE /\ pauseState' = timerUnpaused
            /\ kicker' = "armed"
            /\ IF kicker = "nil"
                 THEN /\ events' = "open"
                      /\ eventsBuf' = FALSE
                      /\ registered' = registered \cup {clock}
                      /\ thr' = [thr EXCEPT !["bg"] = NoLocals("select")]
                 ELSE UNCHANGED << events, eventsBuf, registered, thr >>
  /\ obs' = [ObsOf("Resume") EXCEPT
               !.reset = IF pauseState = timerPaused THEN << 0 >> ELSE << >>]
  /\ pure' = IF pauseState = timerPaused THEN NoteResume(pure) ELSE pure
  /\ UNCHANGED << clock, setting, kickerC, panicked, tchan >>


\* The pauseState Destroy leaves under t.mu.
DestroyState == timerDestroyed

\* Destroy without lines 511-513: the setting stays enabled and pauseState
\* is not set to timerDestroyed.
DestroyLockedSkipped(t) ==
  /\ Running
  /\ MayDestroy(t)
  /\ thr' = [thr EXCEPT ![t] = [NoLocals("DestroyStop") EXCEPT
                                 !.again = (events = "closed")]]
  /\ obs' = ObsOf("DestroyLocked")
  /\ UNCHANGED << timerVars, panicked, pure, tchan >>

\* Timer.Destroy, lines 510-514: under t.mu.
DestroyLocked(t) ==
  /\ Running
  /\ MayDestroy(t)
  /\ setting' = [setting EXCEPT !.Enabled = FALSE]
  /\ pauseState' = DestroyState
  /\ thr' = [thr EXCEPT ![t] = [NoLocals("DestroyStop") EXCEPT
                                 !.again = (events = "closed")]]
  /\ obs' = ObsOf("DestroyLocked")
  /\ UNCHANGED << clock, kicker, kickerC, events, eventsBuf, registered,
                  panicked, pure, tchan >>

\* Destroy without the t.kicker.Stop() of line 515.
DestroyStopSkipped(t) ==
  /\ Running
  /\ thr[t].pc = "DestroyStop"
  /\ thr' = [thr EXCEPT ![t].pc = "DestroyUnregister"]
  /\ obs' = ObsOf("DestroyStop")
  /\ UNCHANGED << timerVars, panicked, pure, tchan >>

\* Timer.Destroy, line 515: t.kicker.Stop().
DestroyStop(t) ==
  /\ Running
  /\ thr[t].pc = "DestroyStop"
  /\ IF kicker = "nil"
       THEN /\ panicked' = "nil kicker"
            /\ UNCHANGED << kicker, thr >>
       ELSE /\ kicker' = kickerStop(kicker)
            /\ thr' = [thr EXCEPT ![t].pc = "DestroyUnregister"]
            /\ UNCHANGED panicked
  /\ obs' = ObsOf("DestroyStop")
  /\ UNCHANGED << clock, setting, pauseState, kickerC, events, eventsBuf,
                  registered, pure, tchan >>

\* Destroy without the EventUnregister of line 518.
DestroyUnregisterSkipped(t) ==
  /\ Running
  /\ thr[t].pc = "DestroyUnregister"
  /\ thr' = [thr EXCEPT ![t].pc = "DestroyClose"]
  /\ obs' = ObsOf("DestroyUnregister")
  /\ UNCHANGED << timerVars, panicked, pure, tchan >>

\* Timer.Destroy, line 518: t.clock.EventUnregister(&t.entry).
DestroyUnregister(t) ==
  /\ Running
  /\ thr[t].pc = "DestroyUnregister"
  /\ registered' = registered \ {clock}
  /\ thr' = [thr EXCEPT ![t].pc = "DestroyClose"]
  /\ obs' = ObsOf("DestroyUnregister")
  /\ UNCHANGED << clock, setting, pauseState, kicker, kickerC, events,
                  eventsBuf, panicked, pure, tchan >>

\* Destroy without the close(t.events) of line 519.
DestroyCloseSkipped(t) ==
  /\ Running
  /\ thr[t].pc = "DestroyClose"
  /\ thr' = [thr EXCEPT ![t] = Return(t)]
  /\ obs' = ObsOf("DestroyClose")
  /\ UNCHANGED << timerVars, panicked, pure, tchan >>

\* Timer.Destroy, line 519: close(t.events), which panics on a channel
\* that is nil or already closed.
DestroyClose(t) ==
  /\ Running
  /\ thr[t].pc = "DestroyClose"
  /\ IF events = "open"
       THEN /\ events' = "closed"
            /\ thr' = [thr EXCEPT ![t] = Return(t)]
            /\ UNCHANGED panicked
       ELSE /\ panicked' = IF events = "closed" THEN "close of closed channel"
                                                ELSE "close of nil channel"
            /\ UNCHANGED << events, thr >>
  /\ obs' = ObsOf("DestroyClose")
  /\ UNCHANGED << clock, setting, pauseState, kicker, kickerC, eventsBuf,
                  registered, pure, tchan >>

\* Timer.runGoroutine: the select receives from t.kicker.C.
SelectKicker ==
  /\ Running
  /\ thr["bg"].pc = "select"
  /\ kickerC
  /\ kickerC' = FALSE
  /\ thr' = [thr EXCEPT !["bg"] = NoLocals("woken")]
  /\ obs' = ObsOf("SelectKicker")
  /\ UNCHANGED << clock, setting, pauseState, kicker, events, eventsBuf,
                  registered, panicked, pure, tchan >>

\* Timer.runGoroutine: the select receives a clock event from t.events.
SelectEvent ==
  /\ Running
  /\ thr["bg"].pc = "select"
  /\ eventsBuf
  /\ eventsBuf' = FALSE
  /\ thr' = [thr EXCEPT !["bg"] = NoLocals("woken")]
  /\ obs' = ObsOf("SelectEvent")
  /\ UNCHANGED << clock, setting, pauseState, kicker, kickerC, events,
                  registered, panicked, pure, tchan >>

\* Timer.runGoroutine: the select finds t.events closed and drained, and
\* the goroutine returns.
SelectClosed ==
  /\ Running
  /\ thr["bg"].pc = "select"
  /\ events = "closed"
  /\ ~eventsBuf
  /\ thr' = [thr EXCEPT !["bg"] = NoLocals("exited")]
  /\ obs' = ObsOf("SelectClosed")
  /\ UNCHANGED << timerVars, panicked, pure, tchan >>

\* The kicker expires: the runtime sends on t.kicker.C (buffered, one slot).
KickerFire ==
  /\ Running
  /\ kicker = "armed"
  /\ kicker' = "idle"
  /\ kickerC' = TRUE
  /\ obs' = ObsOf("KickerFire")
  /\ UNCHANGED << clock, setting, pauseState, events, eventsBuf, registered,
                  thr, panicked, pure, tchan >>

\* A Clock the entry is registered with generates a timerTickEvents event:
\* a non-blocking send on t.events, which panics on a closed channel. An
\* entry that init has not made yet is the zero value, whose event mask is
\* empty: no event is delivered to it.
ClockEvent(c) ==
  /\ Running
  /\ c \in registered
  /\ IF events = "closed"
       THEN /\ panicked' = "send on closed channel"
            /\ UNCHANGED eventsBuf
       ELSE /\ eventsBuf' = (events # "nil")
            /\ UNCHANGED panicked
  /\ obs' = ObsOf("ClockEvent")
  /\ UNCHANGED << clock, setting, pauseState, kicker, kickerC, events,
                  registered, thr, pure, tchan >>

Next ==
  \/ \E t \in Threads : TickBegin(t)
  \/ \E t \in Threads : TickLocked(t)
  \/ \E t \in Readers : GetBegin(t)
  \/ \E t \in Readers : GetLocked(t)
  \/ \E t \in Readers : SwapAndBegin(t)
  \/ \E t \in Readers : SwapAndLocked(t)
  \/ \E t \in Setters : SetClockBegin(t)
  \/ \E t \in Setters : SetClockLocked(t)
  \/ \E t \in Callers : Pause(t)
  \/ \E t \in Callers : Resume(t)
  \/ \E t \in Callers : DestroyLocked(t)
  \/ \E t \in Callers : DestroyStop(t)
  \/ \E t \in Callers : DestroyUnregister(t)
  \/ \E t \in Callers : DestroyClose(t)
  \/ SelectKicker
  \/ SelectEvent
  \/ SelectClosed
  \/ KickerFire
  \/ \E c \in Clocks : ClockEvent(c)

Spec == Init /\ [][Next]_vars

\* The scheduling the goroutine can count on: a kicker that is set fires,
\* a goroutine that can receive in its select does, and the Tick it then
\* calls gets the clock reading and the mutex. Callers of the Timer's
\* methods are under no such obligation.
Fairness ==
  /\ WF_vars(KickerFire)
  /\ WF_vars(SelectKicker)
  /\ WF_vars(SelectEvent)
  /\ WF_vars(TickBegin("bg"))
  /\ WF_vars(TickLocked("bg"))

\* The goroutine and the calls that can come between an expiration and its
\* delivery: Swap and Get of one thread, SetClock, Pause and Resume of
\* another, and clock events.
NextLive ==
  \/ TickBegin("bg")
  \/ TickLocked("bg")
  \/ \E t \in Readers : GetBegin(t)
  \/ \E t \in Readers : GetLocked(t)
  \/ \E t \in Readers : SwapAndBegin(t)
  \/ \E t \in Readers : SwapLocked(t)
  \/ \E t \in Setters : SetClockBegin(t)
  \/ \E t \in Setters : SetClockLocked(t)
  \/ \E t \in Setters : Pause(t)
  \/ \E t \in Setters : Resume(t)
  \/ SelectKicker
  \/ SelectEvent
  \/ KickerFire
  \/ \E c \in Clocks : ClockEvent(c)

SpecLive == Init /\ [][NextLive]_vars /\ Fairness

\* A Destroy call that has begun runs to its end: its caller is not held
\* up between t.mu.Unlock() and close(t.events); and a goroutine whose
\* select can only find t.events closed returns.
FairnessExit ==
  /\ Fairness
  /\ WF_vars(SelectClosed)
  /\ WF_vars(\E t \in Setters : DestroyStop(t))
  /\ WF_vars(\E t \in Setters : DestroyUnregister(t))
  /\ WF_vars(\E t \in Setters : DestroyClose(t))

\* The goroutine and the calls of the thread that destroys the timer:
\* SetClock, Pause, Resume and Destroy, with the kicker and the clocks'
\* events.
NextExit ==
  \/ TickBegin("bg")
  \/ TickLocked("bg")
  \/ \E t \in Setters : SetClockBegin(t)
  \/ \E t \in Setters : SetClockLocked(t)
  \/ \E t \in Setters : Pause(t)
  \/ \E t \in Setters : Resume(t)
  \/ \E t \in Setters : DestroyLocked(t)
  \/ \E t \in Setters : DestroyStop(t)
  \/ \E t \in Setters : DestroyUnregister(t)
  \/ \E t \in Setters : DestroyClose(t)
  \/ SelectKicker
  \/ SelectEvent
  \/ SelectClosed
  \/ KickerFire
  \/ \E c \in Clocks : ClockEvent(c)

SpecExit == Init /\ [][NextExit]_vars /\ FairnessExit


(***************************************************************************)
(* The Timer from NewTimer or as restored from a checkpoint: of the fields *)
(* only clock, listener, setting and pauseState are saved, so the restored *)
(* Timer has no kicker, no entry registered, no events channel and no      *)
(* goroutine until Resume calls init.                                      *)
(***************************************************************************)

\* Settings a Timer was saved with.
RestoredSettings == { MkSetting(FALSE, 0, 0), MkSetting(TRUE, 2, 0) }

\* The Timer after restore: saved while paused, the nosave fields zero.
TimerRestored ==
  /\ clock = "c1"
  /\ setting \in RestoredSettings
  /\ pauseState = timerPaused
  /\ kicker = "nil"
  /\ kickerC = FALSE
  /\ events = "nil"
  /\ eventsBuf = FALSE
  /\ registered = {}
  /\ thr = [t \in Threads |-> NoLocals(IF t = "bg" THEN "none" ELSE "idle")]
  /\ panicked = "none"
  /\ obs = ObsOf("restore")

InitRestored ==
  /\ tchan = "none"
  /\ \/ TimerInit /\ pure = PureHist("NewTimer", FALSE)
     \/ TimerRestored /\ pure = PureHist("restore", FALSE)

\* The calls without a precondition: Tick by one thread, SetClock, Pause,
\* Resume and Destroy by another, with the goroutine, the kicker and the
\* clocks' events.
NextRestored ==
  \/ \E t \in Threads : TickBegin(t)
  \/ \E t \in Threads : TickLocked(t)
  \/ \E t \in Setters : SetClockBegin(t)
  \/ \E t \in Setters : SetClockLocked(t)
  \/ \E t \in Setters : Pause(t)
  \/ \E t \in Setters : Resume(t)
  \/ \E t \in Setters : DestroyLocked(t)
  \/ \E t \in Setters : DestroyStop(t)
  \/ \E t \in Setters : DestroyUnregister(t)
  \/ \E t \in Setters : DestroyClose(t)
  \/ SelectKicker
  \/ SelectEvent
  \/ SelectClosed
  \/ KickerFire
  \/ \E c \in Clocks : ClockEvent(c)

SpecRestored == InitRestored /\ [][NextRestored]_vars


(***************************************************************************)
(* Setting.At on its own: every Setting that keeps the invariant           *)
(* Period >= 0 and every instant, then At once more at an instant that is  *)
(* not later.                                                              *)
(***************************************************************************)

Settings ==
  { MkSetting(e, n, p) : e \in BOOLEAN, n \in Int64, p \in 0 .. MaxInt64 }

InitAt ==
  /\ TimerInit
  /\ tchan = "none"
  /\ \E s \in Settings, now \in Int64 : pure = PureIn(s, now)

\* (s', e) = s.At(now)
ApplyAt ==
  /\ pure.phase = "in"
  /\ pure' = [pure EXCEPT !.phase = "at", !.r = At(pure.s, pure.now)]
  /\ UNCHANGED << timerVars, thr, panicked, obs, tchan >>

\* s'.At(now') for some now' <= now
ApplyAtAgain ==
  /\ pure.phase = "at"
  /\ \E now2 \in MinInt64 .. pure.now :
       pure' = [pure EXCEPT !.phase = "again", !.now2 = now2,
                            !.r2 = At(pure.r[1], now2)]
  /\ UNCHANGED << timerVars, thr, panicked, obs, tchan >>

NextAt == ApplyAt \/ ApplyAtAgain

SpecAt == InitAt /\ [][NextAt]_vars


(***************************************************************************)
(* The Timer with the listener of NewChannelNotifier, and a thread that    *)
(* receives from the channel NewChannelNotifier returned.                  *)
(***************************************************************************)

\* l, tchan := NewChannelNotifier(); NewTimer(clock, l)
InitChan == TimerInit /\ pure = PureOff /\ tchan = "empty"

\* <-tchan: takes the queued value; on an empty channel the receive blocks
\* unless the channel is closed.
ChanReceive ==
  /\ Running
  /\ tchan = "full"
  /\ tchan' = "empty"
  /\ obs' = ObsOf("ChanReceive")
  /\ UNCHANGED << timerVars, thr, panicked, pure >>

NextChan == Next \/ ChanReceive

SpecChan == InitChan /\ [][NextChan]_vars


(***************************************************************************)
(* The conversions on their own: Time.Sub, Time.Unix and FromUnix, the     *)
(* Setting constructors and the itimerspec conversions, each called on     *)
(* every input of a bounded range.                                         *)
(***************************************************************************)

\* A call of the function fn with the arguments in; out is what it returned.
ConvOf(fn, phase, in, out) ==
  [fn |-> fn, phase |-> phase, in |-> in, out |-> out]
ConvCall(fn, in) == ConvOf(fn, "call", in, << >>)

\* Timespecs of the itimerspecs converted: values from one second before
\* the zero time on, intervals from zero on.
ValueSecs == -1 .. 1
IntervalSecs == 0 .. 1
Nsecs == 0 .. Second - 1

InitConv ==
  /\ TimerInit
  /\ tchan = "none"
  /\ \/ \E t \in Int64, u \in Int64 : pure = ConvCall("Sub", << t, u >>)
     \/ \E t \in Int64 : pure = ConvCall("Unix", << t >>)
     \/ \E value \in Int64, interval \in Int64, now \in Int64 :
          pure = ConvCall("SettingFromSpecAt", << value, interval, now >>)
     \/ \E value \in Int64, interval \in Int64 :
          pure = ConvCall("SettingFromAbsSpec", << value, interval >>)
     \/ \E vs \in ValueSecs, vn \in Nsecs, is \in IntervalSecs, in \in Nsecs,
           abs \in BOOLEAN, now \in Int64 :
          pure = ConvCall("SettingFromItimerspec",
                          [its |-> MkItimerspec(MkTimespec(is, in),
                                                MkTimespec(vs, vn)),
                           abs |-> abs, now |-> now])

ConvReturn(fn, phase, out) ==
  /\ pure.fn = fn
  /\ pure' = [pure EXCEPT !.phase = phase, !.out = out]
  /\ UNCHANGED << timerVars, thr, panicked, obs, tchan >>

\* d = t.Sub(u)
ApplySub ==
  /\ pure.phase = "call"
  /\ ConvReturn("Sub", "ret", Sub(pure.in[1], pure.in[2]))

\* (s, ns) = t.Unix()
ApplyUnix ==
  /\ pure.phase = "call"
  /\ ConvReturn("Unix", "unix", Unix(pure.in[1]))

\* FromUnix(s, ns)
ApplyFromUnix ==
  /\ pure.phase = "unix"
  /\ ConvReturn("Unix", "ret", FromUnix(pure.out[1], pure.out[2]))

ApplySettingFromSpecAt ==
  /\ pure.phase = "call"
  /\ ConvReturn("SettingFromSpecAt", "ret",
                SettingFromSpecAt(pure.in[1], pure.in[2], pure.in[3]))

ApplySettingFromAbsSpec ==
  /\ pure.phase = "call"
  /\ ConvReturn("SettingFromAbsSpec", "ret",
                SettingFromAbsSpec(pure.in[1], pure.in[2]))

\* (s, err) = SettingFromItimerspec(its, abs, c), with c.Now() = now
ApplySettingFromItimerspec ==
  /\ pure.phase = "call"
  /\ ConvReturn("SettingFromItimerspec", "setting",
                SettingFromItimerspec(pure.in.its, pure.in.abs, pure.in.now))

\* ItimerspecFromSetting(now, s), for the s returned without error
ApplyItimerspecFromSetting ==
  /\ pure.phase = "setting"
  /\ pure.out.err = "nil"
  /\ ConvReturn("SettingFromItimerspec", "ret",
                ItimerspecFromSetting(pure.in.now, pure.out.s))

NextConv ==
  \/ ApplySub
  \/ ApplyUnix
  \/ ApplyFromUnix
  \/ ApplySettingFromSpecAt
  \/ ApplySettingFromAbsSpec
  \/ ApplySettingFromItimerspec
  \/ ApplyItimerspecFromSetting

SpecConv == InitConv /\ [][NextConv]_vars


(***************************************************************************)
(* Properties.                                                             *)
(***************************************************************************)

Notes(log) == { i \in DOMAIN log : log[i].kind = "notify" }
NoNotify(log) == Notes(log) = {}
DestroyPcs == {"DestroyStop", "DestroyUnregister", "DestroyClose"}

\* Some Destroy call has run its locked section (lines 510-514).
DestroyRan ==
  events = "closed" \/ \E t \in Callers : thr[t].pc \in DestroyPcs

\* C1: whatever the calls and wake-ups and however they interleave, every
\* NotifyTimer call the timer makes carries an expiration count exp > 0.
C1_NotifyOnlyExpirations == \A i \in Notes(obs.log) : obs.log[i].exp > 0

\* A SwapAnd that notified twice, once for the old setting and once for the
\* new one, and a Tick that notified more than one expiration.
C1_Witness ==
  /\ obs.op = "SwapAnd"
  /\ Cardinality(Notes(obs.log)) = 2
  /\ \E i \in Notes(obs.log) : obs.log[i].exp > 1

\* C2: once a Destroy call has set the timer to Destroyed, no step notifies
\* the listener: not a Tick of the goroutine after a wake-up or a clock
\* event, and not an explicit Tick, sampled before or after Destroy locked.
C2_NoNotifyAfterDestroy ==
  DestroyRan => pauseState = timerDestroyed /\ NoNotify(obs.log)

\* A Tick ran its locked section on the Destroyed timer before Destroy
\* stopped the kicker, with an instant at which the one-shot setting that
\* Destroy disabled had expired.
C2_Witness ==
  /\ obs.op = "Tick"
  /\ pauseState = timerDestroyed
  /\ setting = MkSetting(FALSE, 3, 0)
  /\ obs.now >= setting.Next
  /\ \E t \in Callers : thr[t].pc = "DestroyStop"

\* C3: while the timer is Paused, no step notifies the listener and none
\* advances the setting; only SetClock writes it, installing its argument
\* as given.
C3_PausedGeneratesNothing ==
  [][ (pauseState = timerPaused /\ pauseState' = timerPaused)
        => /\ NoNotify(obs'.log)
           /\ \/ setting' = setting
              \/ obs'.op = "SetClock" /\ setting' = obs'.arg ]_vars

\* A Tick ran its locked section on a Paused timer whose enabled setting
\* had expired at the instant the Tick sampled.
C3_Witness ==
  /\ obs.op = "Tick"
  /\ pauseState = timerPaused
  /\ setting.Enabled
  /\ setting.Next <= obs.now

\* C4: pauseState follows the state-machine table. Pause takes Unpaused to
\* Paused and changes nothing otherwise; Resume takes Paused to Unpaused and
\* changes nothing otherwise; Destroy's locked section leaves Destroyed; no
\* other step changes pauseState, and Destroyed is never left.
C4_PauseStateMachine ==
  [][ /\ obs'.op = "Pause" =>
           IF pauseState = timerUnpaused
             THEN pauseState' = timerPaused /\ kicker' # "armed"
             ELSE timerVars' = timerVars
      /\ obs'.op = "Resume" =>
           IF pauseState = timerPaused
             THEN pauseState' = timerUnpaused /\ kicker' = "armed"
             ELSE timerVars' = timerVars
      /\ obs'.op = "DestroyLocked" => pauseState' = timerDestroyed
      /\ obs'.op \notin {"Pause", "Resume", "DestroyLocked"} =>
           pauseState' = pauseState
      /\ pauseState = timerDestroyed => pauseState' = timerDestroyed ]_vars

\* Resume was called on a Destroyed timer after its Destroy had returned.
C4_Witness ==
  /\ obs.op = "Resume"
  /\ pauseState = timerDestroyed
  /\ events = "closed"


\* C5 as stated: Destroy is an idempotent teardown, so a Destroy call made
\* on a timer whose Destroy has already returned completes without fault.
C5_DestroyIdempotent == \A t \in Callers : thr[t].again => panicked = "none"

\* C5, amended: the Destroy call that closes the event channel completes
\* without fault and leaves the timer Destroyed, its setting disabled, the
\* kicker stopped, the entry unregistered and the channel closed; a Destroy
\* call made after that faults when it closes the closed channel.
C5_DestroyOnceThenFault ==
  /\ (obs.op = "DestroyClose" /\ panicked = "none") =>
       /\ pauseState = timerDestroyed
       /\ ~setting.Enabled
       /\ kicker # "armed"
       /\ registered = {}
       /\ events = "closed"
  /\ (obs.op = "DestroyClose"
        /\ \E t \in Callers : thr[t].pc = "DestroyClose" /\ thr[t].again) =>
       panicked = "close of closed channel"

\* A second Destroy, called after the first returned, reached its close.
C5_Witness ==
  /\ obs.op = "DestroyClose"
  /\ panicked = "close of closed channel"
  /\ \E t \in Callers : thr[t].pc = "DestroyClose" /\ thr[t].again

\* C6: if (s', e) = s.At(now), then s'.At(now') = (s', 0) for every
\* now' <= now, over the whole range of instants, saturating Add included.
C6_AdvanceMonotone ==
  pure.phase = "again" => pure.r2 = << pure.r[1], 0 >>

\* C7: for an enabled setting with period p > 0 and now >= next, At returns
\* exp = 1 + (now - next) / p, computed on the true difference, and a
\* setting whose next is next + exp * p.
C7_ExpirationCount ==
  (pure.phase = "at" /\ pure.s.Enabled /\ pure.s.Period > 0
     /\ pure.now >= pure.s.Next) =>
    /\ pure.r[2] = 1 + ((pure.now - pure.s.Next) \div pure.s.Period)
    /\ pure.r[1].Next = pure.s.Next + pure.r[2] * pure.s.Period

\* C8: a one-shot timer fires exactly once. A Tick on an unpaused timer
\* whose enabled setting has period 0 and next <= now notifies exactly 1
\* expiration, with the setting disabled and next and period unchanged, and
\* leaves that setting unless the listener replaces it; a Tick on a
\* disabled setting notifies nothing and leaves it, whatever the clock says.
C8_OneShotFiresOnce ==
  [][ (obs'.op = "Tick" /\ pauseState = timerUnpaused) =>
        /\ (setting.Enabled /\ setting.Period = 0
              /\ setting.Next <= obs'.now) =>
             /\ Len(obs'.log) = 1
             /\ obs'.log[1].kind = "notify"
             /\ obs'.log[1].exp = 1
             /\ obs'.log[1].s = [setting EXCEPT !.Enabled = FALSE]
             /\ ~obs'.log[1].ok => setting' = obs'.log[1].s
        /\ ~setting.Enabled => (obs'.log = << >> /\ setting' = setting) ]_vars

\* A Tick found the one-shot setting already fired and disabled, at an
\* instant past its next, and notified nothing.
C8_Witness ==
  /\ obs.op = "Tick"
  /\ pauseState = timerUnpaused
  /\ setting = MkSetting(FALSE, 3, 0)
  /\ obs.now > setting.Next
  /\ obs.log = << >>


\* The kicker is armed with the wall time from now until s.Next whenever
\* the installed setting s is enabled.
Rescheduled(k, o, s) ==
  s.Enabled => (k = "armed" /\ o.reset = << WallTimeUntil(s.Next, o.now) >>)

\* C9: when a Tick or Get notifies the listener and the listener returns
\* (new, true), the setting after the call is new and the wake-up is set
\* from new; when it returns false, the setting after the call is the one
\* At computed, which is also the one the listener was passed.
C9_ListenerReplacement ==
  [][ (obs'.op \in {"Tick", "Get"} /\ obs'.log # << >>) =>
        LET adv == At(setting, obs'.now)
            n == obs'.log[1]
        IN /\ Len(obs'.log) = 1
           /\ n.kind = "notify"
           /\ n.exp = adv[2]
           /\ n.s = adv[1]
           /\ setting' = IF n.ok THEN n.newS ELSE adv[1]
           /\ Rescheduled(kicker', obs', setting') ]_vars

\* A Get notified expirations of a periodic setting and the listener
\* replaced the advanced setting by its own, still enabled.
C9_Witness ==
  /\ obs.op = "Get"
  /\ Len(obs.log) = 1
  /\ obs.log[1].ok
  /\ obs.log[1].s.Enabled
  /\ obs.log[1].s # obs.log[1].newS
  /\ setting = obs.log[1].newS
  /\ setting.Enabled

FCalls(log) == { i \in DOMAIN log : log[i].kind = "f" }

\* C11: SwapAnd(s, f) with f present calls f exactly once in its locked
\* section, after the notification of the old setting's expirations (the
\* setting the step found, advanced to now) and before the notification of
\* the new setting's; the setting it found is the one it returns advanced
\* and the one it leaves is made from s, so no other call's effect falls in
\* between. Without f the section makes no such call.
C11_FOnceBetween ==
  [][ (obs'.op = "SwapAnd" /\ panicked' = "none") =>
        LET log == obs'.log
            old == At(setting, obs'.now)
            new == At(obs'.arg, obs'.now)
        IN /\ Cardinality(FCalls(log)) = IF obs'.f THEN 1 ELSE 0
           /\ pauseState = timerUnpaused
           /\ obs'.ret = old[1]
           /\ setting' \in {new[1]} \cup {log[j].newS : j \in Notes(log)}
           /\ \A i \in FCalls(log) :
                /\ old[2] > 0 <=> \E j \in Notes(log) : j < i
                /\ new[2] > 0 <=> \E j \in Notes(log) : j > i
                /\ \A j \in Notes(log) :
                     IF j < i
                       THEN log[j].s = old[1] /\ log[j].exp = old[2]
                       ELSE log[j].s = new[1] /\ log[j].exp = new[2] ]_vars

\* A SwapAnd with f notified the old setting's expirations, called f, then
\* notified the expirations of the new setting, which differs from the old.
C11_Witness ==
  /\ obs.op = "SwapAnd"
  /\ obs.f
  /\ Len(obs.log) = 3
  /\ obs.log[2].kind = "f"
  /\ obs.log[1].s # obs.log[3].s

Delay(d) == IF d < 0 THEN 0 ELSE d

\* A wake-up of the goroutine is under way: the kicker is set, or it has
\* fired and the goroutine has not yet run the Tick it fired for.
WakeupPending ==
  kicker = "armed" \/ kickerC \/ thr["bg"].pc \in {"woken", "TickLock"}

\* C13: when a locked section of Tick, Get, SwapAnd (Swap), SetClock or
\* Resume ends with the timer Unpaused and the setting enabled, a wake-up is
\* pending; unless the call was a Resume that found the timer not Paused and
\* did nothing, that same step has reset the kicker, with a delay of at most
\* the wall time from the now the call used until setting.Next.
C13_PostCallReschedule ==
  [][ (/\ obs'.op \in {"Tick", "Get", "SwapAnd", "SetClock", "Resume"}
       /\ pauseState' = timerUnpaused
       /\ setting'.Enabled
       /\ panicked' = "none") =>
        /\ WakeupPending'
        /\ \/ obs'.op = "Resume" /\ pauseState # timerPaused
           \/ /\ kicker' = "armed"
              /\ Len(obs'.reset) = 1
              /\ Delay(obs'.reset[1])
                   <= Delay(WallTimeUntil(setting'.Next, obs'.now)) ]_vars

\* A Get found the kicker fired, installed the listener's enabled setting
\* and reset the kicker for a time still to come.
C13_Witness ==
  /\ obs.op = "Get"
  /\ pauseState = timerUnpaused
  /\ setting.Enabled
  /\ Len(obs.log) = 1
  /\ obs.log[1].ok
  /\ kicker = "armed"
  /\ kickerC
  /\ obs.reset = << WallTimeUntil(setting.Next, obs.now) >>
  /\ obs.reset[1] > 0

\* A call of fn has returned.
Ret(fn) == pure.fn = fn /\ pure.phase = "ret"

\* C14: SettingFromSpecAt(value, interval, now) returns EINVAL and the zero
\* Setting when value < 0, the disabled setting {false, ZeroTime, interval}
\* when value = 0, and else {true, now.Add(value), interval} with no error;
\* SettingFromAbsSpec returns EINVAL exactly when value is before ZeroTime;
\* EINVAL is the only error either returns.
C14_SettingFromSpec ==
  /\ Ret("SettingFromSpecAt") =>
       LET value == pure.in[1]
           interval == pure.in[2]
           now == pure.in[3]
       IN /\ value < 0 => pure.out = Returned(ZeroSetting, EINVAL)
          /\ value = 0 =>
               pure.out = Returned(MkSetting(FALSE, ZeroTime, interval), "nil")
          /\ value > 0 =>
               /\ pure.out.err = "nil"
               /\ pure.out.s.Enabled
               /\ pure.out.s.Period = interval
               /\ pure.out.s.Next
                    = (IF now + value > MaxInt64 THEN MaxTime ELSE now + value)
  /\ Ret("SettingFromAbsSpec") =>
       /\ pure.out.err \in {"nil", EINVAL}
       /\ pure.out.err = EINVAL <=> pure.in[1] < ZeroTime

\* SettingFromSpecAt returned an enabled setting whose Next is saturated:
\* now + value is past MaxTime.
C14_Witness ==
  /\ Ret("SettingFromSpecAt")
  /\ pure.in[1] > 0
  /\ pure.in[3] + pure.in[1] > MaxInt64
  /\ pure.out.s = MkSetting(TRUE, MaxTime, pure.in[2])

\* C15: every Setting that SettingFromSpecAt and SettingFromAbsSpec return
\* without error, for any value and interval, has Period >= 0.
C15_PeriodNonNegative ==
  ((Ret("SettingFromSpecAt") \/ Ret("SettingFromAbsSpec"))
     /\ pure.out.err = "nil") => pure.out.s.Period >= 0

\* C16: t.Sub(u) is the true difference t - u when that is a Duration,
\* MinDuration when it is below the range and MaxDuration when above; and
\* when the result is neither MinDuration nor MaxDuration, u.Add of it is t.
C16_SubSaturates ==
  Ret("Sub") =>
    LET t == pure.in[1]
        u == pure.in[2]
    IN /\ pure.out = (IF t - u < MinInt64 THEN MinDuration
                      ELSE IF t - u > MaxInt64 THEN MaxDuration
                      ELSE t - u)
       /\ pure.out \notin {MinDuration, MaxDuration} => Add(u, pure.out) = t

\* Sub of a positive instant and a negative one whose difference is past
\* MaxDuration.
C16_Witness ==
  /\ Ret("Sub")
  /\ pure.in[1] > 0
  /\ pure.in[2] < 0
  /\ pure.in[1] - pure.in[2] > MaxInt64
  /\ pure.out = MaxDuration

\* C17: for every t with |t| < 2^63 - 10^9, negative t with a non-zero
\* sub-second part included, FromUnix(t.Unix()) = t.
C17_UnixRoundTrip ==
  (Ret("Unix") /\ pure.in[1] < Two63 - Second
     /\ 0 - pure.in[1] < Two63 - Second) => pure.out = pure.in[1]

\* The its of a conversion and its instant, in nanoseconds.
ItsValueNs == pure.in.its.Value.Sec * Second + pure.in.its.Value.Nsec

C19_ChannelClosedByDestroy ==
  (tchan # "none" /\ events = "closed" /\ panicked = "none") =>
    tchan = "closed"

\* The earliest reading of the clocks: a setting whose Next is not after it
\* has been reached by the clock and stays reached.
MinNow == CHOOSE n \in NowVals : \A m \in NowVals : n <= m

\* The timer is Unpaused with an enabled setting whose Next the clock has
\* reached.
Expired ==
  pauseState = timerUnpaused /\ setting.Enabled /\ setting.Next <= MinNow

\* C20 as stated: whenever the timer is Unpaused with an enabled setting
\* whose Next the clock has reached, the listener is eventually notified
\* (here: by any thread, and unless the timer is paused or destroyed
\* first), whatever Swap, Get, SetClock and clock events come in between.
C20_NoExpirationLost ==
  Expired ~> (~NoNotify(obs.log) \/ pauseState # timerUnpaused)

\* C20, amended: whenever the timer is Unpaused with an enabled setting
\* whose Next the clock has reached, eventually the listener is notified,
\* by the goroutine's Tick or by a Tick, Get or SwapAnd that runs first, or
\* the timer is paused or destroyed, or SetClock replaces the setting,
\* which drops the expirations the old setting had accrued. Pause leaves
\* the setting as it is, and a Tick on the Unpaused timer delivers all the
\* expirations accrued at its now in one notification.
C20_ExpirationDelivered ==
  /\ Expired ~> \/ ~NoNotify(obs.log)
                \/ pauseState # timerUnpaused
                \/ obs.op = "SetClock"
  /\ [][ /\ obs'.op = "Pause" => setting' = setting
         /\ (obs'.op = "Tick" /\ pauseState = timerUnpaused
               /\ At(setting, obs'.now)[2] > 0) =>
              /\ Len(obs'.log) = 1
              /\ obs'.log[1].exp = At(setting, obs'.now)[2] ]_vars

\* The goroutine's Tick, run while a caller's Get waited for the mutex,
\* delivered several accrued expirations of a periodic setting in one
\* notification.
C20_Witness ==
  /\ obs.op = "Tick"
  /\ Len(obs.log) = 1
  /\ obs.log[1].exp > 1
  /\ thr["bg"].pc = "select"
  /\ \E t \in Readers : thr[t].pc = "GetLock"

\* C21: once Destroy has set the timer to Destroyed, the goroutine
\* eventually returns (or a panic ends the program, the goroutine with
\* it), also when the kicker had fired or a clock event was queued when
\* Destroy ran; and no step the goroutine takes on the Destroyed timer
\* changes the Timer's fields or notifies the listener: it only receives
\* what its channels hold.
C21_GoroutineExits ==
  /\ pauseState = timerDestroyed ~>
       (thr["bg"].pc = "exited" \/ panicked # "none")
  /\ [][ (pauseState = timerDestroyed /\ thr'["bg"] # thr["bg"]) =>
          /\ << clock, setting, pauseState, kicker, events, registered >>'
               = << clock, setting, pauseState, kicker, events, registered >>
          /\ NoNotify(obs'.log)
          /\ obs'.reset = << >> ]_vars

\* The goroutine is in a Tick on the Destroyed timer after Destroy has
\* returned: it received the kicker that had fired, and a clock event that
\* was sent before Destroy unregistered is still queued in the closed
\* channel.
C21_Witness ==
  /\ pauseState = timerDestroyed
  /\ events = "closed"
  /\ thr["bg"].pc = "TickLock"
  /\ eventsBuf

\* Some Destroy call has made its t.kicker.Stop() (line 515).
DestroyStopped ==
  \/ events = "closed"
  \/ \E t \in Callers : thr[t].pc \in {"DestroyUnregister", "DestroyClose"}

\* C22: Destroy unregisters the entry before it closes t.events, so
\* however Destroy interleaves with the clocks' events and with Tick, Pause
\* and Resume, no clock sends on the closed channel: the channel is closed
\* only with the entry registered nowhere; and once Destroy has stopped the
\* kicker, the kicker is never set again.
C22_NoSendAfterClose ==
  /\ [](panicked # "send on closed channel")
  /\ [](events = "closed" => registered = {})
  /\ [](DestroyStopped => kicker # "armed")
  /\ [][ DestroyStopped => (obs'.reset = << >> /\ kicker' # "armed") ]_vars

\* A clock the timer was moved to by SetClock sent an event after Destroy
\* had stopped the kicker and before it unregistered the entry.
C22_Witness ==
  /\ obs.op = "ClockEvent"
  /\ eventsBuf
  /\ clock = "c2"
  /\ pauseState = timerDestroyed
  /\ \E t \in Callers : thr[t].pc = "DestroyUnregister"

\* C23: the now that a Tick, Get or SwapAnd advances the setting with and
\* sets the kicker from was returned by the Clock that is t.clock while the
\* call holds the mutex: the one it read before locking if that is still
\* t.clock, and t.clock itself, read again, if SetClock replaced the clock
\* in between.
C23_NowFromCurrentClock ==
  [][ (obs'.op \in {"Tick", "Get", "SwapAnd"}
         /\ pauseState = timerUnpaused) =>
        /\ obs'.nowClock = clock
        /\ clock' = clock
        /\ obs'.uclock # clock => obs'.nowClock # obs'.uclock
        /\ obs'.ret = At(setting, obs'.now)[1]
        /\ panicked' = "none" => Rescheduled(kicker', obs', setting') ]_vars

\* A Get read c1 and its Now(), SetClock then moved the timer to c2 with an
\* enabled setting, and the Get, once it held the mutex, advanced that
\* setting with a reading of c2 and notified its expiration.
C23_Witness ==
  /\ obs.op = "Get"
  /\ obs.uclock = "c1"
  /\ obs.nowClock = "c2"
  /\ clock = "c2"
  /\ Len(obs.log) = 1
  /\ obs.ret = MkSetting(FALSE, 2, 0)

\* Some Destroy call has made its EventUnregister (line 518).
DestroyUnregistered ==
  events = "closed" \/ \E t \in Callers : thr[t].pc = "DestroyClose"

\* C24 as stated: in every reachable state the entry is registered if and
\* only if pauseState is Unpaused or Paused and the timer has been resumed
\* at least once since NewTimer or restore.
C24_SubscribedIffResumed ==
  (registered # {}) <=>
    (pauseState \in {timerUnpaused, timerPaused} /\ pure.resumed)

\* C24, amended: the entry is registered with t.clock and no other Clock
\* from NewTimer, or from the first Resume after a restore, until Destroy
\* unregisters it, which Destroy does after it has set pauseState to
\* Destroyed; so it is registered in every state with pauseState Unpaused,
\* and with pauseState Paused unless restored and not yet resumed. Only
\* Resume's init, SetClock and Destroy change the registration, and a
\* SetClock that changes the clock of a restored Timer not yet resumed
\* registers the entry with the new Clock.
C24_Subscription ==
  /\ [](registered \in {{}, {clock}})
  /\ []((kicker # "nil" /\ ~DestroyUnregistered) => registered = {clock})
  /\ [](pauseState = timerUnpaused => registered = {clock})
  /\ [](DestroyUnregistered => (registered = {} /\ pauseState = timerDestroyed))
  /\ []((pure.origin = "NewTimer" /\ ~pure.resumed /\ ~DestroyUnregistered)
          => registered = {clock})
  /\ [][ registered' # registered =>
          \/ obs'.op = "Resume" /\ kicker = "nil" /\ registered' = {clock}
          \/ obs'.op = "SetClock" /\ clock' # clock /\ registered' = {clock'}
          \/ obs'.op = "DestroyUnregister" /\ registered' = {} ]_vars

\* A restored Timer was resumed and SetClock then moved it to another
\* Clock: the entry is registered with that Clock alone.
C24_Witness ==
  /\ pure.origin = "restore"
  /\ pure.resumed
  /\ obs.op = "SetClock"
  /\ clock = "c2"
  /\ registered = {"c2"}
  /\ pauseState = timerUnpaused

\* C25: on an Unpaused timer a Tick and a Get are the same function of the
\* setting they find, the clock reading now and the listener's answer:
\* with (s, exp) = setting.At(now), either notifies exp and s if and only
\* if exp > 0, leaves the listener's replacement if it gave one and s
\* otherwise, sets the kicker from the setting it leaves, and changes
\* nothing else of the Timer; and what Get returns is s.
C25_TickIsGet ==
  [][ (obs'.op \in {"Tick", "Get"} /\ pauseState = timerUnpaused) =>
        LET a == At(setting, obs'.now)
            log == obs'.log
            new == IF a[2] > 0 /\ log[1].ok THEN log[1].newS ELSE a[1]
        IN /\ Len(log) = IF a[2] > 0 THEN 1 ELSE 0
           /\ a[2] > 0 => (log[1].kind = "notify" /\ log[1].exp = a[2]
                             /\ log[1].s = a[1])
           /\ setting' = new
           /\ obs'.reset = ResetArg(new, obs'.now)
           /\ kicker' = IF new.Enabled THEN "armed" ELSE kicker
           /\ << clock, pauseState, kickerC, events, eventsBuf, registered >>'
                = << clock, pauseState, kickerC, events, eventsBuf,
                     registered >>
           /\ obs'.op = "Get" => obs'.ret = a[1] ]_vars

\* A Get notified several expirations of a periodic setting, the listener
\* replaced the setting, and the Get returned the advanced periodic
\* setting, not the replacement it left in the Timer.
C25_Witness ==
  /\ obs.op = "Get"
  /\ Len(obs.log) = 1
  /\ obs.log[1].exp > 1
  /\ obs.log[1].ok
  /\ obs.ret.Period > 0
  /\ obs.ret # setting
  /\ obs.reset = << WallTimeUntil(setting.Next, obs.now) >>

\* C26: on a Timer restored from a checkpoint and not yet resumed, Pause,
\* Resume, Tick, Destroy and SetClock complete without a panic, in any
\* order and interleaving; and once a Resume has taken it out of
\* timerPaused, the Timer has its kicker, its events channel and its
\* goroutine, made by that Resume and by no other step, and its entry
\* registered with t.clock until Destroy unregisters it.
C26_RestoredTimerUsable ==
  /\ []((pure.origin = "restore" /\ ~pure.resumed) => panicked = "none")
  /\ []((pure.origin = "restore" /\ pure.resumed) =>
          /\ kicker # "nil"
          /\ events # "nil"
          /\ thr["bg"].pc # "none"
          /\ (~DestroyUnregistered => registered = {clock}))
  /\ [][ (/\ pure.origin = "restore"
           /\ \/ (kicker = "nil" /\ kicker' # "nil")
              \/ (events = "nil" /\ events' # "nil")
              \/ (thr["bg"].pc = "none" /\ thr'["bg"].pc # "none")) =>
          /\ obs'.op = "Resume"
          /\ kicker = "nil" /\ events = "nil" /\ thr["bg"].pc = "none"
          /\ kicker' = "armed" /\ events' = "open"
          /\ thr'["bg"].pc = "select" ]_vars

====
